---- MODULE Spec2Model ----
(***************************************************************************)
(* Model of the transactional core of hospital_management_system.py:       *)
(* MedicineInventory (the stock ledger) and PatientManager (the patient    *)
(* registry and the prescription transaction), with the two JSON documents *)
(* they persist to.                                                        *)
(***************************************************************************)
EXTENDS Integers, Sequences, FiniteSets, TLC

VARIABLES
    medicines,   \* MedicineInventory.medicines: name -> [quantity, price]
    medFile,     \* content of medicines.json
    patients,    \* PatientManager.patients: name -> [age, gender, prescriptions]
    patFile,     \* content of patients.json
    clock,       \* number of datetime.now() readings made so far
    last,        \* the last call: [op, args, ret, err]; ret is <<>> for None, <<v>> for v
    pre,         \* ledger and registry as they were when the last call was made
    calls,       \* the add_prescription calls in progress, statement by statement
    interleaved  \* some caller has taken a step while another was inside deduct_quantity

vars == <<medicines, medFile, patients, patFile, clock, last, pre, calls, interleaved>>

----------------------------------------------------------------------------
(* Bounds of the model and program constants *)

\* datetime.now() is read at most MaxClock times (bounds the number of prescriptions)
MaxClock == 2
\* ledger quantities explored stay at or below MaxQty
MaxQty == 100

\* get_default_medicines: every catalogue entry starts with quantity 50, price 10.0
DefaultQuantity == 50
DefaultPrice == 10
\* get_low_stock threshold
LowStockThreshold == 10

\* an excerpt of the 62-name catalogue of get_default_medicines
medicines_list == {"Ibupara"}
\* medicine names the callers use: the catalogue and one name outside it
MedNames == medicines_list \cup {"Aspirin"}
PatNames == {"Alice", "Bob"}

\* quantity arguments of add_medicine, update_quantity and deduct_quantity:
\* the values the forms accept (min_value=0), and any integer
NonNegQtyArgs == {0, 25}
AnyQtyArgs == {-25, 0, 25, 75}
\* quantities on both sides of the low-stock threshold
ThresholdQtyArgs == {0, 9, 10, 11}
PriceArgs == {20}
\* line-item quantities of add_prescription, as the form accepts them (min_value=1)
PosRxQtyArgs == {25}
\* line-item quantities of add_prescription called with any integer
AnyRxQtyArgs == {-25, 0, 25}
\* positive line-item quantities of the calls followed statement by statement
TxnRxQtyArgs == {25}
\* (age, gender) arguments of add_patient
PatientArgs == {<<30, "Male">>, <<45, "Female">>}

\* A Python dict of line items is [keys, val]: keys lists the medicine names
\* in the order they were inserted, val maps each of them to its quantity.
EmptyDict == [keys |-> <<>>, val |-> <<>>]

\* the orders in which the names of S can have been inserted
Orders(S) ==
    {k \in [1..Cardinality(S) -> S] : \A i, j \in DOMAIN k : i # j => k[i] # k[j]}

\* all line-item dicts over some medicine names with quantities in Q, in every
\* insertion order (the prescription form inserts in row order)
Mappings(Q) ==
    UNION {{[keys |-> k, val |-> v] : k \in Orders(S), v \in [S -> Q]} :
              S \in SUBSET MedNames}

None == <<>>
NoError == ""

----------------------------------------------------------------------------
(* Persistence helpers *)

\* what is at a file path: <<>> when the file does not exist, <<document>>
\* when it does
NoFile == <<>>

load_json(file, default_data) ==
    IF file # NoFile
    THEN [data |-> file[1], file |-> file[1]]
    ELSE [data |-> default_data, file |-> default_data]

save_json(file, data) == data

get_default_medicines ==
    [med \in medicines_list |-> [quantity |-> DefaultQuantity, price |-> DefaultPrice]]

----------------------------------------------------------------------------
(* MedicineInventory: inv is [medicines, file] *)

\* a slip: no test for an existing name, the record is overwritten
add_medicine_overwrite(inv, name, quantity, price) ==
    LET m == [n \in DOMAIN inv.medicines \cup {name} |->
                 IF n = name THEN [quantity |-> quantity, price |-> price]
                 ELSE inv.medicines[n]]
    IN [medicines |-> m, file |-> save_json(inv.file, m), err |-> NoError]

add_medicine(inv, name, quantity, price) ==
    IF name \in DOMAIN inv.medicines
    THEN [medicines |-> inv.medicines, file |-> inv.file, err |-> "already exists"]
    ELSE LET m == [n \in DOMAIN inv.medicines \cup {name} |->
                      IF n = name THEN [quantity |-> quantity, price |-> price]
                      ELSE inv.medicines[n]]
         IN [medicines |-> m, file |-> save_json(inv.file, m), err |-> NoError]

\* a slip: the new quantity is clamped at zero
update_quantity_clamped(inv, name, new_quantity) ==
    IF name \notin DOMAIN inv.medicines
    THEN [medicines |-> inv.medicines, file |-> inv.file, err |-> "not found"]
    ELSE LET m == [inv.medicines EXCEPT
                      ![name].quantity = IF new_quantity < 0 THEN 0 ELSE new_quantity]
         IN [medicines |-> m, file |-> save_json(inv.file, m), err |-> NoError]

update_quantity(inv, name, new_quantity) ==
    IF name \notin DOMAIN inv.medicines
    THEN [medicines |-> inv.medicines, file |-> inv.file, err |-> "not found"]
    ELSE LET m == [inv.medicines EXCEPT ![name].quantity = new_quantity]
         IN [medicines |-> m, file |-> save_json(inv.file, m), err |-> NoError]

\* a slip: the entry is emptied instead of removed
delete_medicine_soft(inv, name) ==
    IF name \notin DOMAIN inv.medicines
    THEN [medicines |-> inv.medicines, file |-> inv.file, err |-> "not found"]
    ELSE LET m == [inv.medicines EXCEPT ![name].quantity = 0]
         IN [medicines |-> m, file |-> save_json(inv.file, m), err |-> NoError]

delete_medicine(inv, name) ==
    IF name \notin DOMAIN inv.medicines
    THEN [medicines |-> inv.medicines, file |-> inv.file, err |-> "not found"]
    ELSE LET m == [n \in DOMAIN inv.medicines \ {name} |-> inv.medicines[n]]
         IN [medicines |-> m, file |-> save_json(inv.file, m), err |-> NoError]

\* a slip: only the presence of the name is tested
check_availability_presence(meds, name, required_qty) ==
    name \in DOMAIN meds

check_availability(meds, name, required_qty) ==
    IF name \notin DOMAIN meds
    THEN FALSE
    ELSE meds[name].quantity >= required_qty

\* a slip: the quantity is decremented without the availability test
deduct_quantity_unchecked(inv, name, qty) ==
    IF name \in DOMAIN inv.medicines
    THEN LET m == [inv.medicines EXCEPT ![name].quantity = @ - qty]
         IN [medicines |-> m, file |-> save_json(inv.file, m), ret |-> TRUE]
    ELSE [medicines |-> inv.medicines, file |-> inv.file, ret |-> FALSE]

\* a slip: the decrement stays in memory, the document is not saved
deduct_quantity_unsaved(inv, name, qty) ==
    IF check_availability(inv.medicines, name, qty)
    THEN LET m == [inv.medicines EXCEPT ![name].quantity = @ - qty]
         IN [medicines |-> m, file |-> inv.file, ret |-> TRUE]
    ELSE [medicines |-> inv.medicines, file |-> inv.file, ret |-> FALSE]

\* a slip: the last units of a medicine cannot be deducted
deduct_quantity_strict(inv, name, qty) ==
    IF name \in DOMAIN inv.medicines /\ inv.medicines[name].quantity > qty
    THEN LET m == [inv.medicines EXCEPT ![name].quantity = @ - qty]
         IN [medicines |-> m, file |-> save_json(inv.file, m), ret |-> TRUE]
    ELSE [medicines |-> inv.medicines, file |-> inv.file, ret |-> FALSE]

deduct_quantity(inv, name, qty) ==
    IF check_availability(inv.medicines, name, qty)
    THEN LET m == [inv.medicines EXCEPT ![name].quantity = @ - qty]
         IN [medicines |-> m, file |-> save_json(inv.file, m), ret |-> TRUE]
    ELSE [medicines |-> inv.medicines, file |-> inv.file, ret |-> FALSE]

\* a slip: the threshold itself counts as low
get_low_stock_inclusive(meds) ==
    [n \in {k \in DOMAIN meds : meds[k].quantity <= LowStockThreshold} |-> meds[n]]

get_low_stock(meds) ==
    [n \in {k \in DOMAIN meds : meds[k].quantity < LowStockThreshold} |-> meds[n]]

----------------------------------------------------------------------------
(* PatientManager: reg is [patients, file] *)

\* a slip: no test for an existing name, the patient is registered afresh
add_patient_overwrite(reg, name, age, gender) ==
    LET p == [n \in DOMAIN reg.patients \cup {name} |->
                 IF n = name
                 THEN [age |-> age, gender |-> gender, prescriptions |-> <<>>]
                 ELSE reg.patients[n]]
    IN [patients |-> p, file |-> save_json(reg.file, p), err |-> NoError]

add_patient(reg, name, age, gender) ==
    IF name \in DOMAIN reg.patients
    THEN [patients |-> reg.patients, file |-> reg.file, err |-> "already exists"]
    ELSE LET p == [n \in DOMAIN reg.patients \cup {name} |->
                      IF n = name
                      THEN [age |-> age, gender |-> gender, prescriptions |-> <<>>]
                      ELSE reg.patients[n]]
         IN [patients |-> p, file |-> save_json(reg.file, p), err |-> NoError]

\* medicines.items(): the (name, quantity) pairs of a line-item dict, in
\* insertion order
items(mapping) ==
    [i \in 1..Len(mapping.keys) |-> <<mapping.keys[i], mapping.val[mapping.keys[i]]>>]

\* the first loop of add_prescription: the index of the first line item that
\* is not available, 0 when all are
RECURSIVE FirstUnavailable(_, _, _)
FirstUnavailable(meds, its, i) ==
    IF i > Len(its) THEN 0
    ELSE IF ~check_availability(meds, its[i][1], its[i][2]) THEN i
    ELSE FirstUnavailable(meds, its, i + 1)

\* a slip: the loop stops after its first line item
DeductFirst(inv, its, i) ==
    IF i > Len(its) THEN inv
    ELSE LET r == deduct_quantity(inv, its[i][1], its[i][2])
         IN [medicines |-> r.medicines, file |-> r.file]

\* the second loop of add_prescription: deduct_quantity for every line item,
\* the returned value ignored
RECURSIVE DeductAll(_, _, _)
DeductAll(inv, its, i) ==
    IF i > Len(its) THEN inv
    ELSE LET r == deduct_quantity(inv, its[i][1], its[i][2])
         IN DeductAll([medicines |-> r.medicines, file |-> r.file], its, i + 1)

\* a slip: one loop that tests and deducts each line item in turn
RECURSIVE CheckAndDeduct(_, _, _)
CheckAndDeduct(inv, its, i) ==
    IF i > Len(its) THEN [inv |-> inv, bad |-> FALSE]
    ELSE IF ~check_availability(inv.medicines, its[i][1], its[i][2])
         THEN [inv |-> inv, bad |-> TRUE]
    ELSE LET r == deduct_quantity(inv, its[i][1], its[i][2])
         IN CheckAndDeduct([medicines |-> r.medicines, file |-> r.file], its, i + 1)

add_prescription_one_loop(inv, reg, now, patient_name, meds) ==
    IF patient_name \notin DOMAIN reg.patients
    THEN [medicines |-> inv.medicines, medFile |-> inv.file,
          patients |-> reg.patients, patFile |-> reg.file,
          ret |-> None, err |-> "not found", clockRead |-> FALSE]
    ELSE LET prescription == [date |-> now, medicines |-> meds]
             r == CheckAndDeduct(inv, items(meds), 1)
         IN IF r.bad
            THEN [medicines |-> r.inv.medicines, medFile |-> r.inv.file,
                  patients |-> reg.patients, patFile |-> reg.file,
                  ret |-> None, err |-> "insufficient stock", clockRead |-> TRUE]
            ELSE LET p == [reg.patients EXCEPT ![patient_name].prescriptions =
                              Append(@, prescription)]
                 IN [medicines |-> r.inv.medicines, medFile |-> r.inv.file,
                     patients |-> p, patFile |-> save_json(reg.file, p),
                     ret |-> <<prescription>>, err |-> NoError, clockRead |-> TRUE]

\* a slip: the patient is looked up only after the stock has been deducted
add_prescription_late_lookup(inv, reg, now, patient_name, meds) ==
    LET prescription == [date |-> now, medicines |-> meds]
        bad == FirstUnavailable(inv.medicines, items(meds), 1)
    IN IF bad # 0
       THEN [medicines |-> inv.medicines, medFile |-> inv.file,
             patients |-> reg.patients, patFile |-> reg.file,
             ret |-> None, err |-> "insufficient stock", clockRead |-> TRUE]
       ELSE LET inv2 == DeductAll(inv, items(meds), 1)
            IN IF patient_name \notin DOMAIN reg.patients
               THEN [medicines |-> inv2.medicines, medFile |-> inv2.file,
                     patients |-> reg.patients, patFile |-> reg.file,
                     ret |-> None, err |-> "not found", clockRead |-> TRUE]
               ELSE LET p == [reg.patients EXCEPT ![patient_name].prescriptions =
                                 Append(@, prescription)]
                    IN [medicines |-> inv2.medicines, medFile |-> inv2.file,
                        patients |-> p, patFile |-> save_json(reg.file, p),
                        ret |-> <<prescription>>, err |-> NoError, clockRead |-> TRUE]

\* a slip: the new record is inserted at the front of the history
add_prescription_prepend(inv, reg, now, patient_name, meds) ==
    IF patient_name \notin DOMAIN reg.patients
    THEN [medicines |-> inv.medicines, medFile |-> inv.file,
          patients |-> reg.patients, patFile |-> reg.file,
          ret |-> None, err |-> "not found", clockRead |-> FALSE]
    ELSE LET prescription == [date |-> now, medicines |-> meds]
             bad == FirstUnavailable(inv.medicines, items(meds), 1)
         IN IF bad # 0
            THEN [medicines |-> inv.medicines, medFile |-> inv.file,
                  patients |-> reg.patients, patFile |-> reg.file,
                  ret |-> None, err |-> "insufficient stock", clockRead |-> TRUE]
            ELSE LET inv2 == DeductAll(inv, items(meds), 1)
                     p == [reg.patients EXCEPT ![patient_name].prescriptions =
                              <<prescription>> \o @]
                 IN [medicines |-> inv2.medicines, medFile |-> inv2.file,
                     patients |-> p, patFile |-> save_json(reg.file, p),
                     ret |-> <<prescription>>, err |-> NoError, clockRead |-> TRUE]

add_prescription(inv, reg, now, patient_name, meds) ==
    IF patient_name \notin DOMAIN reg.patients
    THEN [medicines |-> inv.medicines, medFile |-> inv.file,
          patients |-> reg.patients, patFile |-> reg.file,
          ret |-> None, err |-> "not found", clockRead |-> FALSE]
    ELSE LET prescription == [date |-> now, medicines |-> meds]
             bad == FirstUnavailable(inv.medicines, items(meds), 1)
         IN IF bad # 0
            THEN [medicines |-> inv.medicines, medFile |-> inv.file,
                  patients |-> reg.patients, patFile |-> reg.file,
                  ret |-> None, err |-> "insufficient stock", clockRead |-> TRUE]
            ELSE LET inv2 == DeductAll(inv, items(meds), 1)
                     p == [reg.patients EXCEPT ![patient_name].prescriptions =
                              Append(@, prescription)]
                 IN [medicines |-> inv2.medicines, medFile |-> inv2.file,
                     patients |-> p, patFile |-> save_json(reg.file, p),
                     ret |-> <<prescription>>, err |-> NoError, clockRead |-> TRUE]

get_patient_history(pats, patient_name) ==
    IF patient_name \notin DOMAIN pats THEN None ELSE <<pats[patient_name]>>

----------------------------------------------------------------------------
(* Reports: the totals of the receipt and of the all-patients summary *)

\* a slip: a medicine that has left the ledger is priced at the default
price_or_default(meds, med) ==
    IF med \in DOMAIN meds THEN meds[med].price ELSE DefaultPrice

\* inventory.medicines.get(med, {}).get('price', 0.0)
get_price(meds, med) ==
    IF med \in DOMAIN meds THEN meds[med].price ELSE 0

\* the loop over prescription['medicines'].items() from line item i on
RECURSIVE total_from(_, _, _)
total_from(meds, its, i) ==
    IF i > Len(its) THEN 0
    ELSE get_price(meds, its[i][1]) * its[i][2] + total_from(meds, its, i + 1)

\* the grand total of one prescription's receipt
total_amount(meds, prescription) ==
    total_from(meds, items(prescription.medicines), 1)

\* the loop over data['prescriptions'] from record k on
RECURSIVE patient_total_from(_, _, _)
patient_total_from(meds, prescriptions, k) ==
    IF k > Len(prescriptions) THEN 0
    ELSE total_amount(meds, prescriptions[k])
             + patient_total_from(meds, prescriptions, k + 1)

\* the "Total Spent" of one patient in the all-patients summary
patient_total(meds, data) ==
    patient_total_from(meds, data.prescriptions, 1)

----------------------------------------------------------------------------
(* The state machine *)

QtyInRange(meds) == \A n \in DOMAIN meds : meds[n].quantity <= MaxQty

Snapshot == [medicines |-> medicines, patients |-> patients]

\* the callers that may be inside add_prescription at the same time
Threads == {1, 2}

\* a caller that is not inside add_prescription
IdleCall ==
    [pc |-> "idle", at |-> "", own |-> FALSE, inv |-> <<>>, reg |-> <<>>,
     patient |-> "", meds |-> EmptyDict, date |-> 0, i |-> 0, j |-> 0,
     checked |-> 0, seen |-> 0, buffer |-> <<>>, clash |-> FALSE,
     results |-> <<>>, ret |-> None, err |-> NoError]

Init ==
    LET m == load_json(NoFile, get_default_medicines)
        p == load_json(NoFile, <<>>)
    IN /\ medicines = m.data
       /\ medFile = m.file
       /\ patients = p.data
       /\ patFile = p.file
       /\ clock = 0
       /\ last = [op |-> "init", args |-> <<>>, ret |-> None, err |-> NoError]
       /\ pre = [medicines |-> m.data, patients |-> p.data]
       /\ calls = [t \in Threads |-> IdleCall]
       /\ interleaved = FALSE

AddMedicine(Q) ==
    \E name \in MedNames, quantity \in Q, price \in PriceArgs :
        LET r == add_medicine([medicines |-> medicines, file |-> medFile],
                              name, quantity, price)
        IN /\ medicines' = r.medicines
           /\ medFile' = r.file
           /\ last' = [op |-> "add_medicine", args |-> <<name, quantity, price>>,
                       ret |-> None, err |-> r.err]
           /\ pre' = Snapshot
           /\ UNCHANGED <<patients, patFile, clock, calls, interleaved>>

UpdateQuantity(Q) ==
    \E name \in MedNames, new_quantity \in Q :
        LET r == update_quantity([medicines |-> medicines, file |-> medFile],
                                 name, new_quantity)
        IN /\ medicines' = r.medicines
           /\ medFile' = r.file
           /\ last' = [op |-> "update_quantity", args |-> <<name, new_quantity>>,
                       ret |-> None, err |-> r.err]
           /\ pre' = Snapshot
           /\ UNCHANGED <<patients, patFile, clock, calls, interleaved>>

\* a slip: deleting a medicine also strips it from every recorded prescription
DeleteMedicineCascade ==
    \E name \in MedNames :
        LET r == delete_medicine([medicines |-> medicines, file |-> medFile], name)
            strip(rec) == [rec EXCEPT !.medicines =
                              [keys |-> SelectSeq(@.keys, LAMBDA n : n # name),
                               val |-> [n \in DOMAIN @.val \ {name} |-> @.val[n]]]]
            p == [n \in DOMAIN patients |->
                     [patients[n] EXCEPT !.prescriptions =
                         [i \in 1..Len(@) |-> strip(@[i])]]]
        IN /\ medicines' = r.medicines
           /\ medFile' = r.file
           /\ patients' = IF r.err = NoError THEN p ELSE patients
           /\ patFile' = patients'
           /\ last' = [op |-> "delete_medicine", args |-> <<name>>,
                       ret |-> None, err |-> r.err]
           /\ pre' = Snapshot
           /\ UNCHANGED <<clock, calls, interleaved>>

DeleteMedicine ==
    \E name \in MedNames :
        LET r == delete_medicine([medicines |-> medicines, file |-> medFile], name)
        IN /\ medicines' = r.medicines
           /\ medFile' = r.file
           /\ last' = [op |-> "delete_medicine", args |-> <<name>>,
                       ret |-> None, err |-> r.err]
           /\ pre' = Snapshot
           /\ UNCHANGED <<patients, patFile, clock, calls, interleaved>>

DeductQuantity(Q) ==
    \E name \in MedNames, qty \in Q :
        LET r == deduct_quantity([medicines |-> medicines, file |-> medFile],
                                 name, qty)
        IN /\ QtyInRange(r.medicines)
           /\ medicines' = r.medicines
           /\ medFile' = r.file
           /\ last' = [op |-> "deduct_quantity", args |-> <<name, qty>>,
                       ret |-> <<r.ret>>, err |-> NoError]
           /\ pre' = Snapshot
           /\ UNCHANGED <<patients, patFile, clock, calls, interleaved>>

AddPatient ==
    \E name \in PatNames, a \in PatientArgs :
        LET r == add_patient([patients |-> patients, file |-> patFile],
                             name, a[1], a[2])
        IN /\ patients' = r.patients
           /\ patFile' = r.file
           /\ last' = [op |-> "add_patient", args |-> <<name, a[1], a[2]>>,
                       ret |-> None, err |-> r.err]
           /\ pre' = Snapshot
           /\ UNCHANGED <<medicines, medFile, clock, calls, interleaved>>

AddPrescription(Q) ==
    \E patient_name \in PatNames, meds \in Mappings(Q) :
        LET r == add_prescription([medicines |-> medicines, file |-> medFile],
                                  [patients |-> patients, file |-> patFile],
                                  clock + 1, patient_name, meds)
        IN /\ r.clockRead => clock < MaxClock
           /\ QtyInRange(r.medicines)
           /\ medicines' = r.medicines
           /\ medFile' = r.medFile
           /\ patients' = r.patients
           /\ patFile' = r.patFile
           /\ clock' = IF r.clockRead THEN clock + 1 ELSE clock
           /\ last' = [op |-> "add_prescription", args |-> <<patient_name, meds>>,
                       ret |-> r.ret, err |-> r.err]
           /\ pre' = Snapshot
           /\ UNCHANGED <<calls, interleaved>>

----------------------------------------------------------------------------
(* add_prescription line by line, with the lines of deduct_quantity, save  *)
(* and save_json it runs through, and before it the two constructions at   *)
(* the top of a script run of its own. A call is [pc, at, own, inv, reg,   *)
(* patient, meds, date, i, j, checked, seen, buffer, clash, results, ret,  *)
(* err]: pc is the phase of the call; at is the line it stands before      *)
(* inside the commit phase; own tells that the caller is a script run of   *)
(* its own, with the ledger inv and the registry reg it has constructed;   *)
(* i is the position of the running loop; j is the position of json.dump   *)
(* in the document it encodes; checked counts the line items that passed   *)
(* check_availability; seen is the stock read by the test of               *)
(* deduct_quantity; buffer is the part of the document json.dump has       *)
(* encoded so far; clash tells that another caller wrote the file this     *)
(* call has open; results lists what each deduct_quantity returned, with   *)
(* the stock its test saw and the stock right before and right after its   *)
(* decrement.                                                              *)

\* the content of a file that json.load cannot read: truncated by open(.., 'w')
\* and not written yet, or overwritten by two writers at once
NotJSON == [torn |-> TRUE]

\* the call has reached one of its return statements
Finished(c) == c.pc \in {"not_found", "rejected", "committed"}

stock(meds, name) == IF name \in DOMAIN meds THEN meds[name].quantity ELSE 0

\* the ledger and the registry a caller works on: the module's inventory and
\* patients objects of the script run it belongs to. Callers that are threads
\* of one run share the pair held in medicines and patients; a caller that is
\* a script run of its own works on the pair that run has constructed.
ledger_of(c) == IF c.own THEN c.inv ELSE medicines
registry_of(c) == IF c.own THEN c.reg ELSE patients

\* the call is inside save() for medicines.json (from deduct_quantity) or for
\* patients.json (from add_prescription, after the deduction loop)
SavingMedicines(c) == c.i <= Len(items(c.meds))

\* the keys of a ledger or a registry in the order json.dump walks them, which
\* is the order of insertion: the catalogue and then the added medicine, as
\* InitLoaded has loaded them. No line of add_prescription inserts a key.
KeyOrder == <<"Ibupara", "Aspirin", "Alice", "Bob">>
keys_of(data) == SelectSeq(KeyOrder, LAMBDA k : k \in DOMAIN data)

\* the document the call is saving, as it is in memory now
saved_data(c) == IF SavingMedicines(c) THEN ledger_of(c) ELSE registry_of(c)

\* json.dump has encoded every entry of the document
Encoded(c) == c.j > Len(keys_of(saved_data(c)))

\* the call holds an open file handle on the document it is saving
HasOpen(c) == c.pc = "committing" /\ c.at = "dump"

\* the call is inside deduct_quantity, past its test
InDeductQuantity(c) ==
    /\ c.pc = "committing"
    /\ c.at \in {"decrement", "open", "dump"}
    /\ SavingMedicines(c)

\* the patient lookup and the construction of the prescription
lookup_patient(c, pats, now) ==
    IF c.patient \notin DOMAIN pats
    THEN [c EXCEPT !.pc = "not_found", !.err = "not found"]
    ELSE [c EXCEPT !.pc = "requested", !.date = now]

\* a slip: the validation loop is left after the first line item that passes
validate_item_first_only(c, meds) ==
    LET it == items(c.meds)[c.i]
    IN IF ~check_availability(meds, it[1], it[2])
       THEN [c EXCEPT !.pc = "rejected", !.err = "insufficient stock"]
       ELSE [c EXCEPT !.i = Len(items(c.meds)) + 1, !.checked = @ + 1]

\* one iteration of the validation loop
validate_item(c, meds) ==
    LET it == items(c.meds)[c.i]
    IN IF ~check_availability(meds, it[1], it[2])
       THEN [c EXCEPT !.pc = "rejected", !.err = "insufficient stock"]
       ELSE [c EXCEPT !.i = @ + 1, !.checked = @ + 1]

\* a slip: deduct_quantity goes on to the decrement without its own test
enter_deduct_unchecked(c, meds) ==
    LET it == items(c.meds)[c.i]
    IN [c EXCEPT !.at = "decrement", !.seen = stock(meds, it[1])]

\* a slip: deduct_quantity refuses to take the last units of a medicine
enter_deduct_strict(c, meds) ==
    LET it == items(c.meds)[c.i]
        refused == [ok |-> FALSE, seen |-> stock(meds, it[1]),
                    before |-> stock(meds, it[1]), after |-> stock(meds, it[1])]
    IN IF it[1] \in DOMAIN meds /\ meds[it[1]].quantity > it[2]
       THEN [c EXCEPT !.at = "decrement", !.seen = stock(meds, it[1])]
       ELSE [c EXCEPT !.i = @ + 1, !.results = Append(@, refused)]

\* the call of deduct_quantity for line item i and its test of
\* check_availability: on False it returns False, which the loop ignores
enter_deduct(c, meds) ==
    LET it == items(c.meds)[c.i]
        refused == [ok |-> FALSE, seen |-> stock(meds, it[1]),
                    before |-> stock(meds, it[1]), after |-> stock(meds, it[1])]
    IN IF check_availability(meds, it[1], it[2])
       THEN [c EXCEPT !.at = "decrement", !.seen = stock(meds, it[1])]
       ELSE [c EXCEPT !.i = @ + 1, !.results = Append(@, refused)]

\* self.medicines[name]["quantity"] -= qty
decrement(c, meds) ==
    LET it == items(c.meds)[c.i]
        m == [meds EXCEPT ![it[1]].quantity = @ - it[2]]
        taken == [ok |-> TRUE, seen |-> c.seen,
                  before |-> stock(meds, it[1]), after |-> stock(m, it[1])]
    IN [call |-> [c EXCEPT !.at = "open", !.results = Append(@, taken)],
        medicines |-> m]

\* a slip-free alternative design: no record when a deduction has failed
append_record_if_all_deducted(c, pats) ==
    LET prescription == [date |-> c.date, medicines |-> c.meds]
        p == [pats EXCEPT ![c.patient].prescriptions = Append(@, prescription)]
    IN IF \E k \in 1..Len(c.results) : ~c.results[k].ok
       THEN [call |-> [c EXCEPT !.at = "open"], patients |-> pats]
       ELSE [call |-> [c EXCEPT !.at = "open"], patients |-> p]

\* the append to the patient's history, after the deduction loop
append_record(c, pats) ==
    LET prescription == [date |-> c.date, medicines |-> c.meds]
        p == [pats EXCEPT ![c.patient].prescriptions = Append(@, prescription)]
    IN [call |-> [c EXCEPT !.at = "open"], patients |-> p]

\* open(file_path, 'w'): the file is truncated
open_w(c) == [c EXCEPT !.at = "dump", !.j = 1, !.buffer = <<>>, !.clash = FALSE]

\* json.dump walks the live document and encodes it entry by entry: the entry
\* at position j is read as it is now, whatever the entries before it were
\* when they were read
encode(c, data) ==
    LET k == keys_of(data)[c.j]
    IN [c EXCEPT !.j = @ + 1, !.buffer = (k :> data[k]) @@ @]

\* what the file can hold after json.dump has written and the file is closed:
\* the encoded document, or no JSON document when another caller wrote the
\* same file while this one had it open
written(c) == {c.buffer} \cup (IF c.clash THEN {NotJSON} ELSE {})

\* the call after its save: deduct_quantity returns True and the loop goes on,
\* or add_prescription returns the prescription
after_save(c) ==
    IF SavingMedicines(c)
    THEN [c EXCEPT !.at = "deduct", !.i = @ + 1, !.j = 0, !.buffer = <<>>,
                   !.clash = FALSE]
    ELSE [c EXCEPT !.pc = "committed", !.at = "", !.j = 0, !.buffer = <<>>,
                   !.clash = FALSE,
                   !.ret = <<[date |-> c.date, medicines |-> c.meds]>>]

\* the caller takes a step while another caller is inside deduct_quantity
Interleaves(t) ==
    interleaved \/ \E u \in Threads \ {t} : InDeductQuantity(calls[u])

\* caller 1 is a thread of the running script, whose objects are medicines and
\* patients; caller 2 is another thread of that script or a second script run
Runs(t) == IF t = 1 THEN {FALSE} ELSE BOOLEAN

\* line 749 in a script run of its own: the run constructs its inventory
\* object from medicines.json as the file is now. json.load raises on a file
\* that holds no JSON document, and that run ends there.
LoadInventory(t) ==
    /\ calls[t].pc = "idle"
    /\ TRUE \in Runs(t)
    /\ medFile # NotJSON
    /\ calls' = [calls EXCEPT ![t] =
                    [IdleCall EXCEPT
                        !.pc = "inventory", !.own = TRUE,
                        !.inv = load_json(<<medFile>>, get_default_medicines).data]]
    /\ interleaved' = Interleaves(t)
    /\ UNCHANGED <<medicines, medFile, patients, patFile, clock, last, pre>>

\* line 750 in a script run of its own: the run constructs its patients
\* object from patients.json as the file is now, or ends with the exception
\* json.load raises
LoadPatients(t) ==
    /\ calls[t].pc = "inventory"
    /\ calls' = [calls EXCEPT ![t] =
                    IF patFile = NotJSON
                    THEN IdleCall
                    ELSE [@ EXCEPT !.pc = "constructed",
                                   !.reg = load_json(<<patFile>>, <<>>).data]]
    /\ interleaved' = Interleaves(t)
    /\ UNCHANGED <<medicines, medFile, patients, patFile, clock, last, pre>>

\* the top of a script run of its own, statement by statement
Run(t) ==
    \/ LoadInventory(t)
    \/ LoadPatients(t)

\* line 889: the caller enters add_prescription, as a thread of the running
\* script, on its objects, or from a script run of its own that has
\* constructed its two objects
Call(t) ==
    \E patient_name \in PatNames, meds \in Mappings(TxnRxQtyArgs) :
        /\ calls[t].pc \in {"idle", "constructed"}
        /\ calls' = [calls EXCEPT ![t] =
                        [@ EXCEPT !.pc = "called", !.patient = patient_name,
                                  !.meds = meds]]
        /\ interleaved' = Interleaves(t)
        /\ UNCHANGED <<medicines, medFile, patients, patFile, clock, last, pre>>

\* lines 113-120
Lookup(t) ==
    /\ calls[t].pc = "called"
    /\ LET c == lookup_patient(calls[t], registry_of(calls[t]), clock + 1)
       IN /\ c.pc = "requested" => clock < MaxClock
          /\ calls' = [calls EXCEPT ![t] = c]
          /\ clock' = IF c.pc = "requested" THEN clock + 1 ELSE clock
    /\ interleaved' = Interleaves(t)
    /\ UNCHANGED <<medicines, medFile, patients, patFile, last, pre>>

StartValidation(t) ==
    /\ calls[t].pc = "requested"
    /\ calls' = [calls EXCEPT ![t].pc = "validating", ![t].i = 1]
    /\ interleaved' = Interleaves(t)
    /\ UNCHANGED <<medicines, medFile, patients, patFile, clock, last, pre>>

CheckItem(t) ==
    /\ calls[t].pc = "validating"
    /\ calls[t].i <= Len(items(calls[t].meds))
    /\ calls' = [calls EXCEPT ![t] = validate_item(calls[t], ledger_of(calls[t]))]
    /\ interleaved' = Interleaves(t)
    /\ UNCHANGED <<medicines, medFile, patients, patFile, clock, last, pre>>

EndValidation(t) ==
    /\ calls[t].pc = "validating"
    /\ calls[t].i > Len(items(calls[t].meds))
    /\ calls' = [calls EXCEPT ![t].pc = "committing", ![t].i = 1, ![t].at = "deduct"]
    /\ interleaved' = Interleaves(t)
    /\ UNCHANGED <<medicines, medFile, patients, patFile, clock, last, pre>>

\* line 85, reached from line 122
EnterDeduct(t) ==
    /\ calls[t].pc = "committing"
    /\ calls[t].at = "deduct"
    /\ calls[t].i <= Len(items(calls[t].meds))
    /\ calls' = [calls EXCEPT ![t] = enter_deduct(calls[t], ledger_of(calls[t]))]
    /\ interleaved' = Interleaves(t)
    /\ UNCHANGED <<medicines, medFile, patients, patFile, clock, last, pre>>

\* line 86
Decrement(t) ==
    /\ calls[t].pc = "committing"
    /\ calls[t].at = "decrement"
    /\ LET r == decrement(calls[t], ledger_of(calls[t]))
       IN IF calls[t].own
          THEN /\ calls' = [calls EXCEPT ![t] = [r.call EXCEPT !.inv = r.medicines]]
               /\ UNCHANGED medicines
          ELSE /\ calls' = [calls EXCEPT ![t] = r.call]
               /\ medicines' = r.medicines
    /\ interleaved' = Interleaves(t)
    /\ UNCHANGED <<medFile, patients, patFile, clock, last, pre>>

\* line 123
AppendRecord(t) ==
    /\ calls[t].pc = "committing"
    /\ calls[t].at = "deduct"
    /\ calls[t].i > Len(items(calls[t].meds))
    /\ LET r == append_record(calls[t], registry_of(calls[t]))
       IN IF calls[t].own
          THEN /\ calls' = [calls EXCEPT ![t] = [r.call EXCEPT !.reg = r.patients]]
               /\ UNCHANGED patients
          ELSE /\ calls' = [calls EXCEPT ![t] = r.call]
               /\ patients' = r.patients
    /\ interleaved' = Interleaves(t)
    /\ UNCHANGED <<medicines, medFile, patFile, clock, last, pre>>

\* line 29, reached from self.save() of line 87 or of line 124
SaveOpen(t) ==
    /\ calls[t].pc = "committing"
    /\ calls[t].at = "open"
    /\ calls' = [calls EXCEPT ![t] = open_w(calls[t])]
    /\ IF SavingMedicines(calls[t])
       THEN medFile' = NotJSON /\ UNCHANGED patFile
       ELSE patFile' = NotJSON /\ UNCHANGED medFile
    /\ interleaved' = Interleaves(t)
    /\ UNCHANGED <<medicines, patients, clock, last, pre>>

\* line 30: json.dump reads and encodes the next entry of the document
SaveEncode(t) ==
    /\ calls[t].pc = "committing"
    /\ calls[t].at = "dump"
    /\ ~Encoded(calls[t])
    /\ calls' = [calls EXCEPT ![t] = encode(calls[t], saved_data(calls[t]))]
    /\ interleaved' = Interleaves(t)
    /\ UNCHANGED <<medicines, medFile, patients, patFile, clock, last, pre>>

\* line 30: the encoded document reaches the file, the file is closed, and
\* the call returns from save(); every other caller that has the same file
\* open is written over
SaveWrite(t) ==
    /\ calls[t].pc = "committing"
    /\ calls[t].at = "dump"
    /\ Encoded(calls[t])
    /\ \E content \in written(calls[t]) :
          IF SavingMedicines(calls[t])
          THEN medFile' = content /\ UNCHANGED patFile
          ELSE patFile' = content /\ UNCHANGED medFile
    /\ calls' = [u \in Threads |->
                    IF u = t THEN after_save(calls[t])
                    ELSE IF HasOpen(calls[u])
                            /\ SavingMedicines(calls[u]) = SavingMedicines(calls[t])
                         THEN [calls[u] EXCEPT !.clash = TRUE]
                         ELSE calls[u]]
    /\ interleaved' = Interleaves(t)
    /\ UNCHANGED <<medicines, patients, clock, last, pre>>

\* the next step of a call in progress
Step(t) ==
    \/ Lookup(t)
    \/ StartValidation(t)
    \/ CheckItem(t)
    \/ EndValidation(t)
    \/ EnterDeduct(t)
    \/ Decrement(t)
    \/ AppendRecord(t)
    \/ SaveOpen(t)
    \/ SaveEncode(t)
    \/ SaveWrite(t)

\* the caller has received the returned value
Return(t) ==
    /\ Finished(calls[t])
    /\ calls' = [calls EXCEPT ![t] = IdleCall]
    /\ interleaved' = Interleaves(t)
    /\ UNCHANGED <<medicines, medFile, patients, patFile, clock, last, pre>>

\* documents left in medicines.json and patients.json by an earlier session:
\* none, or the catalogue with one added medicine and one registered patient
SavedMedicines ==
    {NoFile,
     <<[n \in MedNames |-> IF n \in medicines_list
                           THEN [quantity |-> DefaultQuantity, price |-> DefaultPrice]
                           ELSE [quantity |-> 25, price |-> 20]]>>}
SavedPatients ==
    {NoFile,
     <<[n \in {"Alice"} |-> [age |-> 30, gender |-> "Female", prescriptions |-> <<>>]]>>}

\* construction of the two objects over the documents of an earlier session
InitLoaded ==
    \E mf \in SavedMedicines, pf \in SavedPatients :
        LET m == load_json(mf, get_default_medicines)
            p == load_json(pf, <<>>)
        IN /\ medicines = m.data
           /\ medFile = m.file
           /\ patients = p.data
           /\ patFile = p.file
           /\ clock = 0
           /\ last = [op |-> "init", args |-> <<>>, ret |-> None, err |-> NoError]
           /\ pre = [medicines |-> m.data, patients |-> p.data]
           /\ calls = [t \in Threads |-> IdleCall]
           /\ interleaved = FALSE

\* the dashboard's query of the ledger
GetLowStock ==
    /\ last' = [op |-> "get_low_stock", args |-> <<>>,
                ret |-> <<get_low_stock(medicines)>>, err |-> NoError]
    /\ pre' = Snapshot
    /\ UNCHANGED <<medicines, medFile, patients, patFile, clock, calls, interleaved>>

\* the whole program, driven with the quantities its forms accept
Next ==
    \/ AddMedicine(NonNegQtyArgs)
    \/ UpdateQuantity(NonNegQtyArgs)
    \/ DeleteMedicine
    \/ DeductQuantity(NonNegQtyArgs)
    \/ AddPatient
    \/ AddPrescription(PosRxQtyArgs)

Spec == Init /\ [][Next]_vars

\* MedicineInventory alone, called with any integer quantity
NextLedger ==
    \/ AddMedicine(AnyQtyArgs)
    \/ UpdateQuantity(AnyQtyArgs)
    \/ DeleteMedicine
    \/ DeductQuantity(AnyQtyArgs)

SpecLedger == Init /\ [][NextLedger]_vars

\* MedicineInventory with quantities around the low-stock threshold, and
\* the low-stock query
NextLowStock ==
    \/ AddMedicine(ThresholdQtyArgs)
    \/ UpdateQuantity(ThresholdQtyArgs)
    \/ DeleteMedicine
    \/ DeductQuantity(ThresholdQtyArgs)
    \/ GetLowStock

SpecLowStock == Init /\ [][NextLowStock]_vars

\* one caller: a call runs to its return before anything else happens
NextSeq ==
    \/ Call(1)
    \/ Step(1)
    \/ Return(1)

SpecSeq == InitLoaded /\ [][NextSeq]_vars /\ WF_vars(Step(1))

\* two callers, each a thread on the objects of the running script or a script
\* run with objects of its own, over the same two files. No line takes a lock:
\* the callers switch between any two lines, and inside line 30 between any
\* two entries json.dump encodes.
NextThreads ==
    \/ \E t \in Threads : Run(t)
    \/ \E t \in Threads : Call(t)
    \/ \E t \in Threads : Step(t)
    \/ \E t \in Threads : Return(t)

SpecThreads == InitLoaded /\ [][NextThreads]_vars

\* PatientManager called directly, with any integer line-item quantity
NextAnyRx ==
    \/ AddPatient
    \/ AddPrescription(AnyRxQtyArgs)

SpecAnyRx == Init /\ [][NextAnyRx]_vars

\* one caller that only registers patients and prescribes, over the documents
\* of an earlier session; no medicine is added, updated or deleted
NextRx ==
    \/ AddPatient
    \/ AddPrescription(PosRxQtyArgs)

SpecRx == InitLoaded /\ [][NextRx]_vars

TypeOK ==
    /\ DOMAIN medicines \subseteq MedNames
    /\ DOMAIN patients \subseteq PatNames
    /\ clock \in 0..MaxClock
----------------------------------------------------------------------------
(* Vocabulary of the properties *)

\* every line item names a medicine of the ledger whose quantity covers it
Satisfiable(ledger, mapping) ==
    \A n \in DOMAIN mapping.val :
        n \in DOMAIN ledger /\ ledger[n].quantity >= mapping.val[n]

\* required quantities tried against the ledger by the queries of the properties
ProbeQty == (0 - MaxQty)..MaxQty

----------------------------------------------------------------------------
(* C1: a rejected add_prescription is all-or-nothing. When the patient is  *)
(* registered and some line item names a medicine that is absent or short  *)
(* of stock, the call returns None and the ledger (quantities and prices)  *)
(* and every patient's record are exactly as before the call.              *)
C1_RejectionChangesNothing ==
    (/\ last.op = "add_prescription"
     /\ last.args[1] \in DOMAIN pre.patients
     /\ ~Satisfiable(pre.medicines, last.args[2]))
    => /\ last.ret = None
       /\ medicines = pre.medicines
       /\ patients = pre.patients

\* a rejected prescription whose first line item passed its test with a
\* positive quantity and whose later line item failed
C1_Witness ==
    /\ last.op = "add_prescription"
    /\ last.args[1] \in DOMAIN pre.patients
    /\ last.ret = None
    /\ \E i, j \in 1..Len(last.args[2].keys) :
          LET a == last.args[2].keys[i]
              b == last.args[2].keys[j]
          IN /\ i < j
             /\ last.args[2].val[a] > 0
             /\ a \in DOMAIN pre.medicines
             /\ pre.medicines[a].quantity >= last.args[2].val[a]
             /\ (b \notin DOMAIN pre.medicines
                  \/ pre.medicines[b].quantity < last.args[2].val[b])

(* C2: a satisfiable add_prescription is exact. When the patient is        *)
(* registered and every line item is covered, each listed medicine loses   *)
(* exactly its requested quantity, every other medicine and every price is *)
(* unchanged, the patient's history is the old history followed by one new *)
(* record whose line items are the input mapping, that record is the       *)
(* returned value, and no other patient's record changes.                  *)
C2_SuccessIsExact ==
    (/\ last.op = "add_prescription"
     /\ last.args[1] \in DOMAIN pre.patients
     /\ Satisfiable(pre.medicines, last.args[2]))
    => LET p == last.args[1]
           m == last.args[2]
           old == pre.patients[p].prescriptions
       IN /\ DOMAIN medicines = DOMAIN pre.medicines
          /\ \A n \in DOMAIN m.val :
                /\ medicines[n].quantity = pre.medicines[n].quantity - m.val[n]
                /\ medicines[n].price = pre.medicines[n].price
          /\ \A n \in DOMAIN medicines \ DOMAIN m.val : medicines[n] = pre.medicines[n]
          /\ DOMAIN patients = DOMAIN pre.patients
          /\ Len(patients[p].prescriptions) = Len(old) + 1
          /\ SubSeq(patients[p].prescriptions, 1, Len(old)) = old
          /\ patients[p].prescriptions[Len(old) + 1].medicines = m
          /\ last.ret = <<patients[p].prescriptions[Len(old) + 1]>>
          /\ patients[p].age = pre.patients[p].age
          /\ patients[p].gender = pre.patients[p].gender
          /\ \A q \in DOMAIN patients \ {p} : patients[q] = pre.patients[q]

\* a prescription of two line items accepted for a patient who already had
\* a record in the history
C2_Witness ==
    /\ last.op = "add_prescription"
    /\ last.ret # None
    /\ Len(last.args[2].keys) = 2
    /\ Len(pre.patients[last.args[1]].prescriptions) >= 1

(* C3: stock is never negative. Driven by add_medicine, update_quantity,   *)
(* delete_medicine, deduct_quantity and add_prescription with non-negative *)
(* quantities and positive line-item quantities, from the seeded ledger,   *)
(* every medicine of the ledger has quantity >= 0.                         *)
C3_StockNeverNegative ==
    \A n \in DOMAIN medicines : medicines[n].quantity >= 0

\* a deduction that has just taken a medicine's stock down to exactly zero
C3_Witness ==
    /\ last.op \in {"deduct_quantity", "add_prescription"}
    /\ \E n \in DOMAIN medicines \cap DOMAIN pre.medicines :
          medicines[n].quantity = 0 /\ pre.medicines[n].quantity > 0

(* C4: deduct_quantity(name, qty) returns True exactly when                *)
(* check_availability(name, qty) held in the state before the call; then   *)
(* the quantity is the old one minus qty, everything else is unchanged,    *)
(* and the quantity stays >= 0 when qty and the old quantity were; when it *)
(* returns False the ledger is unchanged.                                  *)
C4_DeductIffAvailable ==
    last.op = "deduct_quantity"
    => LET name == last.args[1]
           qty == last.args[2]
           avail == check_availability(pre.medicines, name, qty)
       IN /\ last.ret = <<avail>>
          /\ avail =>
                /\ medicines = [pre.medicines EXCEPT ![name].quantity = @ - qty]
                /\ (qty >= 0 /\ pre.medicines[name].quantity >= 0)
                      => medicines[name].quantity >= 0
          /\ ~avail => medicines = pre.medicines

\* a deduction of the whole remaining positive stock
C4_Witness ==
    /\ last.op = "deduct_quantity"
    /\ last.ret = <<TRUE>>
    /\ last.args[2] > 0
    /\ pre.medicines[last.args[1]].quantity = last.args[2]

(* C5: add_medicine(name, quantity, price) with a name not in the ledger   *)
(* inserts exactly the record (quantity, price) under that name and leaves *)
(* every other medicine unchanged; with a name already in the ledger it    *)
(* reports the duplicate and leaves the whole ledger unchanged.            *)
C5_AddMedicine ==
    last.op = "add_medicine"
    => LET name == last.args[1]
       IN IF name \notin DOMAIN pre.medicines
          THEN /\ last.err = NoError
               /\ DOMAIN medicines = DOMAIN pre.medicines \cup {name}
               /\ medicines[name].quantity = last.args[2]
               /\ medicines[name].price = last.args[3]
               /\ \A n \in DOMAIN pre.medicines : medicines[n] = pre.medicines[n]
          ELSE /\ last.err = "already exists"
               /\ medicines = pre.medicines

\* add_medicine on an existing name with another quantity and another price
C5_Witness ==
    /\ last.op = "add_medicine"
    /\ last.args[1] \in DOMAIN pre.medicines
    /\ pre.medicines[last.args[1]].quantity # last.args[2]
    /\ pre.medicines[last.args[1]].price # last.args[3]

(* C6: add_patient(name, age, gender) with a name not in the registry      *)
(* inserts a patient with that age and gender and an empty history; with a *)
(* registered name it reports the duplicate and leaves the registry        *)
(* unchanged: age, gender and history of the existing patient are kept.    *)
C6_AddPatient ==
    last.op = "add_patient"
    => LET name == last.args[1]
       IN IF name \notin DOMAIN pre.patients
          THEN /\ last.err = NoError
               /\ DOMAIN patients = DOMAIN pre.patients \cup {name}
               /\ patients[name].age = last.args[2]
               /\ patients[name].gender = last.args[3]
               /\ patients[name].prescriptions = <<>>
               /\ \A n \in DOMAIN pre.patients : patients[n] = pre.patients[n]
          ELSE /\ last.err = "already exists"
               /\ patients = pre.patients

\* add_patient on a registered name that has a history, with another age
\* and another gender
C6_Witness ==
    /\ last.op = "add_patient"
    /\ last.args[1] \in DOMAIN pre.patients
    /\ pre.patients[last.args[1]].age # last.args[2]
    /\ pre.patients[last.args[1]].gender # last.args[3]
    /\ Len(pre.patients[last.args[1]].prescriptions) >= 1

(* C7: add_prescription for a patient name that is not registered returns  *)
(* None with "not found" and changes neither the ledger nor the registry,  *)
(* whatever the stock of its line items; the patient is not created.       *)
C7_UnknownPatient ==
    (last.op = "add_prescription" /\ last.args[1] \notin DOMAIN pre.patients)
    => /\ last.ret = None
       /\ last.err = "not found"
       /\ medicines = pre.medicines
       /\ patients = pre.patients
       /\ last.args[1] \notin DOMAIN patients

\* an unregistered patient with two line items that are both in stock
C7_Witness ==
    /\ last.op = "add_prescription"
    /\ last.args[1] \notin DOMAIN pre.patients
    /\ Len(last.args[2].keys) = 2
    /\ Satisfiable(pre.medicines, last.args[2])

(* C8: update_quantity(name, new_quantity) on a medicine of the ledger     *)
(* sets its quantity to exactly new_quantity, whatever the value, and      *)
(* leaves its price and every other medicine unchanged; on an absent name  *)
(* it reports "not found", changes nothing and does not create the name.   *)
C8_UpdateQuantity ==
    last.op = "update_quantity"
    => LET name == last.args[1]
       IN IF name \in DOMAIN pre.medicines
          THEN /\ last.err = NoError
               /\ DOMAIN medicines = DOMAIN pre.medicines
               /\ medicines[name].quantity = last.args[2]
               /\ medicines[name].price = pre.medicines[name].price
               /\ \A n \in DOMAIN medicines \ {name} : medicines[n] = pre.medicines[n]
          ELSE /\ last.err = "not found"
               /\ medicines = pre.medicines
               /\ name \notin DOMAIN medicines

\* a negative new quantity written to a medicine of the ledger
C8_Witness ==
    /\ last.op = "update_quantity"
    /\ last.args[1] \in DOMAIN pre.medicines
    /\ last.args[2] < 0
    /\ pre.medicines[last.args[1]].quantity # last.args[2]

(* C9: after delete_medicine(name) on a medicine of the ledger the name is *)
(* gone, every other entry is unchanged, check_availability(name, q) is    *)
(* False for every q and deduct_quantity(name, q) returns False without a  *)
(* change; delete_medicine on an absent name reports "not found" and       *)
(* leaves the ledger unchanged.                                            *)
C9_DeleteMedicine ==
    /\ last.op = "delete_medicine" =>
          LET name == last.args[1]
              inv == [medicines |-> medicines, file |-> medFile]
          IN IF name \in DOMAIN pre.medicines
             THEN /\ last.err = NoError
                  /\ DOMAIN medicines = DOMAIN pre.medicines \ {name}
                  /\ \A n \in DOMAIN medicines : medicines[n] = pre.medicines[n]
                  /\ \A q \in ProbeQty :
                        /\ check_availability(medicines, name, q) = FALSE
                        /\ deduct_quantity(inv, name, q) =
                              [medicines |-> medicines, file |-> medFile, ret |-> FALSE]
             ELSE /\ last.err = "not found"
                  /\ medicines = pre.medicines
    /\ (last.op = "deduct_quantity" /\ last.args[1] \notin DOMAIN pre.medicines) =>
          (last.ret = <<FALSE>> /\ medicines = pre.medicines)

\* a medicine with stock on hand has just been deleted
C9_Witness ==
    /\ last.op = "delete_medicine"
    /\ last.args[1] \in DOMAIN pre.medicines
    /\ pre.medicines[last.args[1]].quantity > 0

(* C10: deleting a medicine does not cascade. delete_medicine leaves every *)
(* patient and every prescription record unchanged, also the records whose *)
(* line items name the deleted medicine, and so do add_medicine and        *)
(* update_quantity.                                                        *)
C10_NoCascade ==
    last.op \in {"delete_medicine", "add_medicine", "update_quantity"}
    => patients = pre.patients /\ patFile = patients

\* a medicine named by a recorded prescription has just been deleted
C10_Witness ==
    /\ last.op = "delete_medicine"
    /\ last.err = NoError
    /\ \E p \in DOMAIN patients :
          \E i \in 1..Len(patients[p].prescriptions) :
              last.args[1] \in DOMAIN patients[p].prescriptions[i].medicines.val

(* C11: in every ledger state get_low_stock() returns exactly the entries  *)
(* whose quantity is strictly less than 10, each with its current quantity *)
(* and price (10 is excluded, 9 and 0 are included, the result is empty    *)
(* when nothing qualifies), and the call changes no state.                 *)
C11_LowStockExact ==
    last.op = "get_low_stock"
    => LET r == last.ret[1]
       IN /\ DOMAIN r = {n \in DOMAIN medicines : medicines[n].quantity < 10}
          /\ \A n \in DOMAIN r : r[n] = medicines[n]
          /\ medicines = pre.medicines
          /\ patients = pre.patients

\* the query made on a ledger holding one entry at 9 and one at 10
C11_Witness ==
    /\ last.op = "get_low_stock"
    /\ \E a, b \in DOMAIN medicines :
          /\ medicines[a].quantity = 9
          /\ medicines[b].quantity = 10
          /\ a \in DOMAIN last.ret[1]
          /\ b \notin DOMAIN last.ret[1]

(* C12: patient histories are append-only. Across every call the set of    *)
(* registered names never shrinks, a registered patient's age and gender   *)
(* never change, and each history has the history before the call as a     *)
(* prefix; it grows by at most one record, and only on a successful        *)
(* add_prescription for that patient. A newly registered patient starts    *)
(* with an empty history.                                                  *)
C12_AppendOnly ==
    /\ DOMAIN pre.patients \subseteq DOMAIN patients
    /\ \A p \in DOMAIN pre.patients :
          LET old == pre.patients[p].prescriptions
              new == patients[p].prescriptions
          IN /\ patients[p].age = pre.patients[p].age
             /\ patients[p].gender = pre.patients[p].gender
             /\ Len(old) <= Len(new)
             /\ Len(new) <= Len(old) + 1
             /\ \A i \in 1..Len(old) : new[i] = old[i]
             /\ Len(new) = Len(old) + 1 =>
                   /\ last.op = "add_prescription"
                   /\ last.args[1] = p
                   /\ last.ret = <<new[Len(new)]>>
    /\ \A p \in DOMAIN patients \ DOMAIN pre.patients :
          patients[p].prescriptions = <<>>

\* a second record, dated later, has just been appended behind the first
C12_Witness ==
    /\ last.op = "add_prescription"
    /\ last.args[1] \in DOMAIN patients
    /\ Len(patients[last.args[1]].prescriptions) = 2
    /\ Len(pre.patients[last.args[1]].prescriptions) = 1
    /\ patients[last.args[1]].prescriptions[1].date
          < patients[last.args[1]].prescriptions[2].date

\* the record a call builds is in its patient's history
Recorded(c) ==
    /\ c.patient \in DOMAIN registry_of(c)
    /\ \E k \in 1..Len(registry_of(c)[c.patient].prescriptions) :
          registry_of(c)[c.patient].prescriptions[k] =
              [date |-> c.date, medicines |-> c.meds]

\* no deduction before every line item has passed its check; a committed
\* call has made every deduction call and its record is in the history; a
\* rejected call has made none and has no record
C13_Order ==
    \A t \in Threads :
        LET c == calls[t]
            n == Len(items(c.meds))
        IN /\ c.pc \in {"requested", "validating", "rejected"} => c.results = <<>>
           /\ c.pc \in {"committing", "committed"} => c.checked = n
           /\ c.pc = "committed" => Len(c.results) = n /\ Recorded(c)
           /\ c.pc = "rejected" => ~Recorded(c)

\* the moves of a call: a transaction starts at Requested, when the patient
\* has been found and the prescription built
C13_Moves ==
    \A t \in Threads :
        \/ calls'[t].pc = calls[t].pc
        \/ <<calls[t].pc, calls'[t].pc>> \in
              {<<"idle", "called">>, <<"called", "not_found">>, <<"called", "requested">>,
               <<"requested", "validating">>,
               <<"validating", "rejected">>, <<"validating", "committing">>,
               <<"committing", "committed">>,
               <<"not_found", "idle">>, <<"rejected", "idle">>, <<"committed", "idle">>}

(* C13: every prescription transaction follows Requested -> Validating ->  *)
(* (Rejected | Committing -> Committed). It makes no other move, it ends   *)
(* in Rejected or Committed, its first deduction comes only after every    *)
(* line item has passed its availability check, and once in Committing it  *)
(* ends with its record appended.                                          *)
C13_TransactionStateMachine ==
    /\ []C13_Order
    /\ [][C13_Moves]_vars
    /\ \A t \in Threads :
          (calls[t].pc = "requested") ~> (calls[t].pc \in {"rejected", "committed"})

\* a call of two line items has gone through both loops and is committed
C13_Witness ==
    \E t \in Threads :
        /\ calls[t].pc = "committed"
        /\ calls[t].checked = 2
        /\ Len(calls[t].results) = 2
        /\ Recorded(calls[t])

(* C14: with one caller, whenever the validation loop of add_prescription  *)
(* has passed for all line items, every deduct_quantity call of the        *)
(* deduction loop returns True and takes exactly the requested quantity:   *)
(* none is silently skipped.                                               *)
C14_DeductionsSucceed ==
    \A t \in Threads :
        \A k \in 1..Len(calls[t].results) :
            /\ calls[t].results[k].ok
            /\ calls[t].results[k].before = calls[t].results[k].seen
            /\ calls[t].results[k].after =
                  calls[t].results[k].before - items(calls[t].meds)[k][2]

\* a committed call of two line items, one of which took the last units
C14_Witness ==
    \E t \in Threads :
        /\ calls[t].pc = "committed"
        /\ Len(calls[t].results) = 2
        /\ \E k \in 1..2 :
              calls[t].results[k].after = 0 /\ calls[t].results[k].before > 0

\* one of the call's deduct_quantity calls returned False
SomeDeductionFailed(c) == \E k \in 1..Len(c.results) : ~c.results[k].ok

(* C15 as stated: when two add_prescription calls interleave so that a     *)
(* deduction of one fails after its validation passed, that call ends with *)
(* some of its medicines deducted and its record not in the history.       *)
C15_PartialAndNotRecorded ==
    \A t \in Threads :
        (calls[t].pc = "committed" /\ SomeDeductionFailed(calls[t]))
        => /\ \E k \in 1..Len(calls[t].results) : calls[t].results[k].ok
           /\ ~Recorded(calls[t])

(* C15 as the code behaves: when two add_prescription calls interleave so  *)
(* that a deduction of one fails after its validation passed, the failed   *)
(* line item is not deducted, the line items whose deduction succeeds (if  *)
(* any) are, and the call still appends its record with all its line items *)
(* to the patient's history and returns it.                                *)
C15_FailedDeductionStillRecorded ==
    \A t \in Threads :
        LET c == calls[t]
        IN /\ \A k \in 1..Len(c.results) :
                 c.results[k].after =
                     IF c.results[k].ok
                     THEN c.results[k].before - items(c.meds)[k][2]
                     ELSE c.results[k].before
           /\ (c.pc = "committed" /\ SomeDeductionFailed(c))
                 => /\ Recorded(c)
                    /\ c.ret = <<[date |-> c.date, medicines |-> c.meds]>>

\* a call of two line items has returned with one deducted, one refused,
\* and its record in the history
C15_Witness ==
    \E t \in Threads :
        /\ calls[t].pc = "committed"
        /\ Len(calls[t].results) = 2
        /\ \E j, k \in 1..2 : calls[t].results[j].ok /\ ~calls[t].results[k].ok
        /\ Recorded(calls[t])

(* C16: every prescription record in every patient's history has only     *)
(* line-item quantities strictly greater than zero, whatever integer       *)
(* quantities add_prescription is called with.                             *)
C16_RecordedQuantitiesPositive ==
    \A p \in DOMAIN patients :
        \A k \in 1..Len(patients[p].prescriptions) :
            \A n \in DOMAIN patients[p].prescriptions[k].medicines.val :
                patients[p].prescriptions[k].medicines.val[n] > 0

(* C17: after construction and after every completed call, successful or   *)
(* failed, the medicine document in the durable store equals the ledger in *)
(* memory and the patient document equals the registry in memory.          *)
C17_StoresMirrorMemory ==
    /\ medFile = medicines
    /\ patFile = patients

\* a successful prescription has changed both the ledger and the registry,
\* and both documents hold the new state
C17_Witness ==
    /\ last.op = "add_prescription"
    /\ last.err = NoError
    /\ medicines # pre.medicines
    /\ patients # pre.patients
    /\ medFile = medicines
    /\ patFile = patients

\* what a line item is worth at the prices of a ledger: quantity times price
\* when the medicine is in the ledger, nothing when it is not
Contribution(ledger, mapping, n) ==
    IF n \in DOMAIN mapping.val /\ n \in DOMAIN ledger
    THEN mapping.val[n] * ledger[n].price
    ELSE 0

\* the sum of the values of a function f over a finite set S of its domain
RECURSIVE SumOver(_, _)
SumOver(S, f) ==
    IF S = {} THEN 0
    ELSE LET x == CHOOSE y \in S : TRUE
         IN f[x] + SumOver(S \ {x}, f)

\* the sum of the contributions of the line items of a mapping
ExpectedTotal(ledger, mapping) ==
    SumOver(DOMAIN mapping.val,
            [n \in DOMAIN mapping.val |-> Contribution(ledger, mapping, n)])

(* C18: the total of every prescription record is the sum over its line    *)
(* items of quantity times the current ledger price, a line item whose     *)
(* medicine is not in the ledger counting for 0; and right after a         *)
(* successful delete_medicine the total of every record is its total       *)
(* before the call minus the deleted medicine's quantity in the record     *)
(* times the price the medicine had. A patient's total is the sum of the   *)
(* totals of the records.                                                  *)
C18_TotalsTolerateDeletion ==
    \A p \in DOMAIN patients :
        /\ \A k \in 1..Len(patients[p].prescriptions) :
              LET rec == patients[p].prescriptions[k]
              IN /\ total_amount(medicines, rec) = ExpectedTotal(medicines, rec.medicines)
                 /\ (last.op = "delete_medicine" /\ last.err = NoError) =>
                       total_amount(medicines, rec)
                           = total_amount(pre.medicines, rec)
                               - Contribution(pre.medicines, rec.medicines, last.args[1])
        /\ patient_total(medicines, patients[p])
               = SumOver(1..Len(patients[p].prescriptions),
                         [k \in 1..Len(patients[p].prescriptions) |->
                             ExpectedTotal(medicines,
                                           patients[p].prescriptions[k].medicines)])

\* a medicine has just been deleted; some record with two line items names
\* it, and the record's total has dropped to what the other item is worth
C18_Witness ==
    /\ last.op = "delete_medicine"
    /\ last.err = NoError
    /\ \E p \in DOMAIN patients :
          \E k \in 1..Len(patients[p].prescriptions) :
              LET rec == patients[p].prescriptions[k]
              IN /\ last.args[1] \in DOMAIN rec.medicines.val
                 /\ Len(rec.medicines.keys) = 2
                 /\ total_amount(medicines, rec) > 0
                 /\ total_amount(medicines, rec) < total_amount(pre.medicines, rec)

\* the ledger the session started with: the loaded document with the names
\* of the current ledger (no call of the prescribing session changes the names)
InitialLedger ==
    CHOOSE m \in {load_json(mf, get_default_medicines).data : mf \in SavedMedicines} :
        DOMAIN m = DOMAIN medicines

\* the units of medicine n in all prescription records of all patients
RecordedUnits(pats, n) ==
    SumOver(DOMAIN pats,
            [p \in DOMAIN pats |->
                SumOver(1..Len(pats[p].prescriptions),
                        [k \in 1..Len(pats[p].prescriptions) |->
                            IF n \in DOMAIN pats[p].prescriptions[k].medicines.val
                            THEN pats[p].prescriptions[k].medicines.val[n]
                            ELSE 0])])

(* C19: stock conservation. In a single-threaded sequence of add_patient   *)
(* and add_prescription calls with positive line-item quantities, for      *)
(* every medicine of the ledger the initial quantity minus the current     *)
(* quantity equals the sum of that medicine's quantities over all          *)
(* prescription records of all patients; no record names a medicine that   *)
(* is not in the ledger.                                                   *)
C19_StockConservation ==
    \A n \in MedNames :
        IF n \in DOMAIN medicines
        THEN InitialLedger[n].quantity - medicines[n].quantity
                 = RecordedUnits(patients, n)
        ELSE RecordedUnits(patients, n) = 0

\* a prescription of two medicines has just been recorded, and one of the
\* medicines has been prescribed down to nothing over two records
C19_Witness ==
    /\ last.op = "add_prescription"
    /\ last.err = NoError
    /\ Len(last.args[2].keys) = 2
    /\ \E n \in DOMAIN medicines :
          /\ medicines[n].quantity = 0
          /\ RecordedUnits(patients, n) = 50
          /\ RecordedUnits(pre.patients, n) = 25

(* C20: stock stays non-negative under interleaving. When add_prescription *)
(* calls with positive quantities interleave at the granularity of single  *)
(* check_availability and deduct_quantity calls, each deduct_quantity call *)
(* running as one atomic unit (no caller has taken a step while another    *)
(* was inside deduct_quantity), every quantity of every ledger is >= 0,    *)
(* and every deduction a call has made either was refused with the stock   *)
(* short and left as it was, or took the item's quantity from a stock that *)
(* covered it.                                                             *)
C20_NonNegativeUnderInterleaving ==
    ~interleaved =>
        /\ \A n \in DOMAIN medicines : medicines[n].quantity >= 0
        /\ \A t \in Threads :
              /\ \A n \in DOMAIN ledger_of(calls[t]) :
                     ledger_of(calls[t])[n].quantity >= 0
              /\ \A k \in 1..Len(calls[t].results) :
                     LET r == calls[t].results[k]
                         qty == items(calls[t].meds)[k][2]
                     IN /\ qty > 0
                        /\ r.after >= 0
                        /\ r.before = r.seen
                        /\ IF r.ok
                           THEN r.before >= qty /\ r.after = r.before - qty
                           ELSE r.before < qty /\ r.after = r.before

\* with every deduct_quantity call run as one atomic unit, a call that had
\* passed validation was refused a deduction because the other call had
\* taken the stock in between, down to nothing
C20_Witness ==
    /\ ~interleaved
    /\ \E t \in Threads :
          \E k \in 1..Len(calls[t].results) :
              /\ ~calls[t].results[k].ok
              /\ calls[t].results[k].before = 0
              /\ calls[t].checked = Len(items(calls[t].meds))
              /\ \E u \in Threads \ {t} :
                    \E j \in 1..Len(calls[u].results) :
                        /\ calls[u].results[j].ok
                        /\ calls[u].results[j].after = 0
                        /\ items(calls[u].meds)[j][1] = items(calls[t].meds)[k][1]
====
